---------------------------- MODULE Spec2Model ----------------------------
(***************************************************************************)
(* Waste-classification station (PR4/main.py): the sensor monitoring loop  *)
(* of WasteClassificationSystem, its three timed windows (lights, camera,  *)
(* classification cooldown), the lock-guarded classification attempt and   *)
(* the teardown.                                                           *)
(*                                                                         *)
(* Time is the value of time.time() in whole seconds.  The loop's sleep of *)
(* MEASUREMENT_INTERVAL (0.2 s) is shorter than one unit, so the clock may *)
(* or may not move between two ticks; any step may take any time.  The     *)
(* clock is followed through the instants of TimePoints: the first seconds *)
(* after start, and the seconds at which a window armed then can expire.   *)
(***************************************************************************)
EXTENDS Integers, Sequences, FiniteSets, TLC

\* ---------------------------------------------------------------- constants
MOTION_THRESHOLD == 50
CAMERA_TIMEOUT == 15

\* as LIGHT_ON_DURATION, longer than the camera timeout
LIGHT_ON_DURATION_LONG == CAMERA_TIMEOUT + 5

LIGHT_ON_DURATION == 10
CLASSIFICATION_DELAY == 1
ERROR_SLEEP == 1

\* LABEL_MAPPING: raw model label -> display category ("" : not in the table)
LABEL_MAPPING(l) ==
    CASE l = "plastic" -> "PLASTIC"
      [] l = "paper" -> "PAPER"
      [] l = "cardboard" -> "CARDBOARD"
      [] l = "organic" -> "ORGANIC"
      [] l = "green-glass" -> "GLASS"
      [] OTHER -> ""

InLabelMapping(l) == l \in {"plastic", "paper", "cardboard", "organic", "green-glass"}

\* LABEL_MAPPING, lines 39-45: the display categories
MappedCategories == {"PLASTIC", "PAPER", "CARDBOARD", "ORGANIC", "GLASS"}

WAITING == "WAITING..."
UNIDENTIFIED == "UNIDENTIFIED"
CAMERA_ERROR == "CAMERA ERROR"

\* the labels of lines 79, 276, 300 and 370 that are not categories
Sentinels == {WAITING, UNIDENTIFIED, CAMERA_ERROR}

\* ------------------------------------------------------------------- bounds
StartTime == 1      \* the clock's value when the loop starts
Near == 2           \* seconds followed one by one after each base instant
MaxDets == 3        \* longest detection list given to the selection
MaxLightTime == 8   \* last second followed in the motion light
MaxEchoClock == 13  \* last clock value followed in measure_distance, in 10 ms
MaxSamples == 3     \* samples given to detect_motion in a row

\* "no reading" of measure_distance, "never" of the history variables
None == -1

\* the instants at which the clock is observed
TimePoints ==
    UNION { base .. base + Near :
            base \in {StartTime, StartTime + LIGHT_ON_DURATION,
                      StartTime + CAMERA_TIMEOUT} }

\* the first observed instant at or after t (the last one when there is none)
NextTimePoint(t) ==
    IF \E p \in TimePoints : p >= t
    THEN CHOOSE p \in TimePoints : p >= t /\ \A q \in TimePoints : q >= t => p <= q
    ELSE CHOOSE p \in TimePoints : \A q \in TimePoints : q <= p

\* distances (cm) the range sensor may report in a tick
Distances == {40, 50, 51}

\* raw labels and confidence percentages a detection may carry
RawLabels == {"plastic", "paper", "unknown"}
Confidences == {55, 60, 61, 72, 99}
Detection == [label : RawLabels, conf : Confidences]

\* detection lists the classifier returns inside the loop
LoopDetections ==
    { << >>,
      << [label |-> "plastic", conf |-> 55], [label |-> "paper", conf |-> 72],
         [label |-> "unknown", conf |-> 99] >>,
      << [label |-> "plastic", conf |-> 61] >> }

VARIABLES
    now,                        \* time.time(), seconds
    pc,                         \* position of the controller in run()
    lights_on_until,
    camera_active_until,
    last_classification_time,
    last_classification,
    classification_confidence,
    camera_window_open,
    picam2,                     \* TRUE: camera (and model) present; FALSE: None
    is_running,
    camera_lock,                \* "free", "controller", "preview"
    leds,                       \* TRUE: the pixels are lit
    distance,                   \* locals of the loop body
    object_detected,
    dark_environment,
    ldr,                        \* history: the LDR read of the tick
    current_time,               \* local of classify_waste (line 221)
    preview,                    \* position of the second camera consumer
    last_attempt_time,          \* history: call time of the last call that captured
    resets_in_cycle,            \* history: "camera idle" resets since the last arming
    last_activate_time,         \* history: the clock read of the last turn_on_lights
    no_reading,                 \* history: the tick began without a range reading
    scenario,                   \* history: ticks of ExampleReadings matched so far
    echo,                       \* level of the echo line, 0 or 1
    gpio_broken,                \* TRUE: a GPIO call raises
    start_time,                 \* locals of measure_distance
    end_time,
    timeout,
    call_start,                 \* history: the clock read of line 125
    echo_seen,                  \* history: levels the wait loops have read
    previous_distance,          \* baseline of detect_motion
    motion,                     \* what the last detect_motion call returned
    fed,                        \* history: the samples given to detect_motion
    windows_shown,              \* TRUE: the preview window is on the screen
    interrupted,                \* history: KeyboardInterrupt reached run()
    oled_cleared,               \* TRUE: the display was blanked by cleanup
    gpio_open,                  \* TRUE: the GPIO chip handle is open
    cleanup_failed,             \* history: the cleanup steps that raised
    sel_in,                     \* selection checked on its own: input, output
    sel_out,
    snapshot,                   \* history: what this tick's update_display drew
    current_mode,               \* environmental station: display mode
    last_button_time,
    button,                     \* level of the mode button's line; 0: pressed
    calls,                      \* history: calls of check_buttons
    presses,                    \* history: calls that recognised a press
    mpc,                        \* temperature monitor: position in the script
    temps,
    consecutive_alerts,
    temperature,
    led,                        \* level written to each LED pin
    todo,                       \* LED writes of the branch still to run
    h,                          \* TRUE: the monitor's GPIO chip handle is open
    readings,                   \* history: the successful readings, in order
    reads                       \* history: sensor reads made

vars == << now, pc, lights_on_until, camera_active_until, last_classification_time,
           last_classification, classification_confidence, camera_window_open,
           picam2, is_running, camera_lock, leds, distance, object_detected,
           dark_environment, ldr, current_time, preview, last_attempt_time,
           resets_in_cycle, no_reading, last_activate_time, scenario, echo,
           gpio_broken, start_time, end_time, timeout, call_start, echo_seen,
           previous_distance, motion, fed, windows_shown,
           interrupted,
           oled_cleared, gpio_open, cleanup_failed, sel_in, sel_out, snapshot,
           current_mode, last_button_time, button, calls, presses,
           mpc, temps, consecutive_alerts, temperature, led, todo, h,
           readings, reads >>

\* nothing drawn: before update_display ran in the tick, or after it raised
NoSnapshot == [label |-> "", conf |-> 0, cam |-> FALSE, led |-> FALSE]

timers == << lights_on_until, camera_active_until, last_classification_time >>
result == << last_classification, classification_confidence >>
locals == << distance, object_detected, dark_environment, ldr >>
history == << last_attempt_time, resets_in_cycle >>
selvars == << sel_in, sel_out >>
teardown == << interrupted, oled_cleared, gpio_open, cleanup_failed >>
lightvars == << last_activate_time, scenario >>
echovars == << echo, gpio_broken, start_time, end_time, timeout, call_start,
              echo_seen >>
motionvars == << previous_distance, motion, fed >>
buttonvars == << current_mode, last_button_time, button, calls, presses >>
monitorvars == << mpc, temps, consecutive_alerts, temperature, led, todo, h,
                 readings, reads >>
unitvars == << lightvars, no_reading, echovars, motionvars >>

\* ---------------------------------------------------------------- selection
\* as SelectStep, with the best confidence raised before the label is looked up
SelectStepMasking(best, d) ==
    IF d.conf > 60 /\ d.conf > best.conf
    THEN IF InLabelMapping(d.label)
         THEN [category |-> LABEL_MAPPING(d.label), conf |-> d.conf]
         ELSE [category |-> best.category, conf |-> d.conf]
    ELSE best

\* One pass of the loop body at lines 253-266 over one box.
SelectStep(best, d) ==
    IF d.conf > 60 /\ d.conf > best.conf /\ InLabelMapping(d.label)
    THEN [category |-> LABEL_MAPPING(d.label), conf |-> d.conf]
    ELSE best

RECURSIVE SelectFrom(_, _, _)
SelectFrom(best, dets, i) ==
    IF i > Len(dets) THEN best
    ELSE SelectFrom(SelectStep(best, dets[i]), dets, i + 1)

\* lines 244-277: the result classify_waste stores for a detection list
SelectBest(dets) ==
    LET best == SelectFrom([category |-> "", conf |-> 0], dets, 1)
    IN IF best.category # ""
       THEN [label |-> best.category, conf |-> best.conf]
       ELSE [label |-> UNIDENTIFIED, conf |-> 0]


\* --------------------------------------------------------------------- Init
\* environmental station, src/PR2A/main.py lines 29-33: the display modes
MODE_TEMP == 0
MODE_HUMIDITY == 1
MODE_LIGHT == 2
MODE_ALL == 3

\* src/PR2A/main.py lines 36-42 and line 27: the mode button is pulled up
ButtonAtRest ==
    /\ current_mode = MODE_ALL
    /\ last_button_time = 0
    /\ button = 1
    /\ calls = 0
    /\ presses = 0

\* temperature monitor, src/PR1A/main.py lines 7-9: the LED pins
LED_NORMAL == 17
LED_ALERT == 27
LED_WARNING == 22
Pins == {LED_NORMAL, LED_ALERT, LED_WARNING}

\* src/PR1A/main.py lines 29-37: NORMAL on, then two blinks that end lit
StartupWrites ==
    << << LED_NORMAL, 1 >>, << LED_NORMAL, 0 >>, << LED_NORMAL, 1 >>,
       << LED_NORMAL, 0 >>, << LED_NORMAL, 1 >> >>

\* src/PR1A/main.py lines 15-17: the chip is open, the pins are outputs at 0,
\* the startup sequence is still to run
MonitorAtRest ==
    /\ mpc = "startup"
    /\ temps = << >>
    /\ consecutive_alerts = 0
    /\ temperature = None
    /\ led = [pin \in Pins |-> 0]
    /\ todo = StartupWrites
    /\ h = TRUE
    /\ readings = << >>
    /\ reads = 0

\* line 78: no baseline; no sample was given to detect_motion
MotionAtRest ==
    /\ previous_distance = None
    /\ motion = FALSE
    /\ fed = << >>

\* no measure_distance call is under way
EchoAtRest ==
    /\ echo = 0
    /\ gpio_broken = FALSE
    /\ start_time = None
    /\ end_time = None
    /\ timeout = None
    /\ call_start = None
    /\ echo_seen = "nothing"

\* __init__, lines 72-88: initialize_camera_and_model may leave picam2 = None
Init ==
    /\ now = StartTime
    /\ pc = "measure"
    /\ lights_on_until = 0
    /\ camera_active_until = 0
    /\ last_classification_time = 0
    /\ last_classification = WAITING
    /\ classification_confidence = 0
    /\ camera_window_open = FALSE
    /\ picam2 \in BOOLEAN
    /\ is_running = TRUE
    /\ camera_lock = "free"
    /\ leds = FALSE
    /\ distance = None
    /\ object_detected = FALSE
    /\ dark_environment = FALSE
    /\ ldr = "unread"
    /\ current_time = None
    /\ preview = "idle"
    /\ last_attempt_time = None
    /\ resets_in_cycle = 0
    /\ last_activate_time = None
    /\ scenario = None
    /\ no_reading = FALSE
    /\ EchoAtRest
    /\ MotionAtRest
    /\ windows_shown = FALSE
    /\ interrupted = FALSE
    /\ oled_cleared = FALSE
    /\ gpio_open = TRUE
    /\ cleanup_failed = {}
    /\ sel_in = << >>
    /\ sel_out = [label |-> WAITING, conf |-> 0]
    /\ snapshot = NoSnapshot
    /\ ButtonAtRest
    /\ MonitorAtRest

\* ------------------------------------------------------------------ helpers
\* as StationSnapshot, with the camera flag taken from the preview window
StationSnapshotFromWindow(t) ==
    [label |-> last_classification,
     conf  |-> classification_confidence,
     cam   |-> camera_window_open,
     led   |-> t < lights_on_until]

\* update_display, lines 314-332: what is drawn when the clock reads t: the
\* label, the confidence, CAM: ACTIVE/IDLE and LED: ON/OFF
StationSnapshot(t) ==
    [label |-> last_classification,
     conf  |-> classification_confidence,
     cam   |-> t < camera_active_until,
     led   |-> t < lights_on_until]

\* what a read of the LDR pin gives: a level, or an exception
LdrReads == {"low", "high", "fault"}

\* as is_dark, with a failed read taken as dark
is_dark_on_fault(level) == level # "low"

\* is_dark, lines 147-153: the pin reads 1; False when the read raises
is_dark(level) == level = "high"

\* line 350
ObjectDetected(d) == d <= MOTION_THRESHOLD

\* line 356: the camera window is armed on detection alone
ShouldArmCamera(obj, dark) == obj

\* as ShouldArmLights, without the darkness test
ShouldArmLightsIgnoringDark(obj, dark) == obj

\* line 360
ShouldArmLights(obj, dark) == obj /\ dark

\* should_lights_be_on, lines 185-187
should_lights_be_on == now < lights_on_until

\* as CameraActive, with a window that never expires once armed
CameraActiveOnceArmed(t) == camera_active_until > 0

\* line 365 / line 322
CameraActive(t) == t < camera_active_until

\* as CooldownElapsed, without the rate limit
CooldownAlwaysElapsed(t) == TRUE

\* line 222: the rate limit lets the call through
CooldownElapsed(t) == ~(t - last_classification_time < CLASSIFICATION_DELAY)

\* as LockAvailable, entering without waiting for the lock
LockAlwaysAvailable == TRUE

\* `with self.camera_lock` entered only when no one holds the lock (line 225)
LockAvailable == camera_lock = "free"

\* as LockAfterWith, the lock still held after the block
LockKeptAfterWith == "controller"

\* leaving the `with` block on any path releases the lock (line 225)
LockAfterWith == "free"

\* as CameraErrorResult, with line 301 left out
CameraErrorKeepsConfidence ==
    [label |-> CAMERA_ERROR, conf |-> classification_confidence]

\* except branch of classify_waste, lines 298-301
CameraErrorResult == [label |-> CAMERA_ERROR, conf |-> 0]

\* what an empty frame leaves as the result: `return` at line 231
EmptyFrameResult == [label |-> last_classification, conf |-> classification_confidence]

\* last_classification_time after an attempt that did not reach line 296
CooldownAfterFailure == last_classification_time

\* as IdleResetFires, without the test of line 369
IdleResetAlways == TRUE

\* line 369: the idle branch resets only a result that is not WAITING
IdleResetFires == last_classification # WAITING

\* as IdleResult, with line 371 left out
IdleResultKeepsConfidence ==
    IF IdleResetFires
    THEN [label |-> WAITING, conf |-> classification_confidence]
    ELSE [label |-> last_classification, conf |-> classification_confidence]

\* lines 369-371: the result after the idle branch
IdleResult ==
    IF IdleResetFires
    THEN [label |-> WAITING, conf |-> 0]
    ELSE [label |-> last_classification, conf |-> classification_confidence]

\* ------------------------------------------------------------------ actions
\* time passes between any two steps of the controller
Advance ==
    /\ pc \notin {"cleanup", "stopped"}
    /\ NextTimePoint(now + 1) > now
    /\ now' = NextTimePoint(now + 1)
    /\ UNCHANGED << pc, timers, result, camera_window_open, picam2, is_running,
                    camera_lock, leds, locals, current_time, preview, history,
                    selvars, snapshot, buttonvars, monitorvars,
                    unitvars, windows_shown, teardown >>

\* as AfterNoReading, the rest of the tick skipped
AfterNoReadingSkipsTick == "sleep"

\* lines 347-363: after a missing reading the tick goes on at the camera check
AfterNoReading == "check"

\* lines 344-353: measure_distance (None on timeout or fault), is_dark
Measure ==
    /\ pc = "measure"
    /\ is_running
    /\ \E d \in Distances \cup {None}, level \in LdrReads :
          /\ distance' = d
          /\ no_reading' = (d = None)
          /\ IF d # None
             THEN /\ object_detected' = ObjectDetected(d)
                  /\ dark_environment' = is_dark(level)
                  /\ ldr' = level
                  /\ pc' = "arm_camera"
             ELSE /\ object_detected' = FALSE
                  /\ dark_environment' = FALSE
                  /\ ldr' = "unread"
                  /\ pc' = AfterNoReading
    /\ UNCHANGED << now, timers, result, camera_window_open, picam2, is_running,
                    camera_lock, leds, current_time, preview, history, selvars, snapshot, buttonvars, monitorvars,
                    lightvars, echovars, motionvars, windows_shown,
                    teardown >>

\* as ArmCamera, arming the light window along with the camera window
ArmCameraExtendingLights ==
    /\ pc = "arm_camera"
    /\ IF ShouldArmCamera(object_detected, dark_environment)
       THEN /\ camera_active_until' = now + CAMERA_TIMEOUT
            /\ lights_on_until' = now + LIGHT_ON_DURATION
            /\ resets_in_cycle' = 0
       ELSE UNCHANGED << camera_active_until, lights_on_until, resets_in_cycle >>
    /\ pc' = "arm_lights"
    /\ UNCHANGED << now, last_classification_time, result,
                    camera_window_open, picam2, is_running, camera_lock, leds,
                    locals, current_time, preview, last_attempt_time, selvars, snapshot, buttonvars, monitorvars,
                    unitvars, windows_shown, teardown >>

\* lines 355-357
ArmCamera ==
    /\ pc = "arm_camera"
    /\ IF ShouldArmCamera(object_detected, dark_environment)
       THEN /\ camera_active_until' = now + CAMERA_TIMEOUT
            /\ resets_in_cycle' = 0
       ELSE UNCHANGED << camera_active_until, resets_in_cycle >>
    /\ pc' = "arm_lights"
    /\ UNCHANGED << now, lights_on_until, last_classification_time, result,
                    camera_window_open, picam2, is_running, camera_lock, leds,
                    locals, current_time, preview, last_attempt_time, selvars, snapshot, buttonvars, monitorvars,
                    unitvars, windows_shown, teardown >>

\* as turn_on_lights, without the assignment of line 172
turn_on_lights_no_expiry(ok) ==
    IF ok
    THEN /\ leds' = TRUE
         /\ lights_on_until' = lights_on_until
    ELSE UNCHANGED << leds, lights_on_until >>

\* turn_on_lights, lines 166-175; ok = FALSE: the pixel write raises
turn_on_lights(ok) ==
    IF ok
    THEN /\ leds' = TRUE
         /\ lights_on_until' = now + LIGHT_ON_DURATION
    ELSE UNCHANGED << leds, lights_on_until >>

\* as turn_off_lights, without the pixel write
turn_off_lights_skipped(ok) == leds' = leds

\* turn_off_lights, lines 177-183; ok = FALSE: the pixel write raises
turn_off_lights(ok) == leds' = IF ok THEN FALSE ELSE leds

\* lines 359-361; the tick's readings are not read again after line 361
ArmLights ==
    /\ pc = "arm_lights"
    /\ IF ShouldArmLights(object_detected, dark_environment)
       THEN \E ok \in BOOLEAN : turn_on_lights(ok)
       ELSE UNCHANGED << leds, lights_on_until >>
    /\ distance' = None
    /\ object_detected' = FALSE
    /\ dark_environment' = FALSE
    /\ ldr' = "unread"
    /\ pc' = "check"
    /\ UNCHANGED << now, camera_active_until, last_classification_time, result,
                    camera_window_open, picam2, is_running, camera_lock,
                    current_time, preview, history, selvars, snapshot, buttonvars, monitorvars,
                    unitvars, windows_shown, teardown >>

\* lines 363-377: classify while the camera window is active, else reset
CheckCamera ==
    /\ pc = "check"
    /\ IF CameraActive(now) /\ picam2
       THEN /\ pc' = "classify"
            /\ UNCHANGED << result, camera_window_open, windows_shown,
                            resets_in_cycle >>
       ELSE IF now >= camera_active_until
       THEN /\ last_classification' = IdleResult.label
            /\ classification_confidence' = IdleResult.conf
            /\ resets_in_cycle' = IF IdleResetFires
                                  THEN resets_in_cycle + 1 ELSE resets_in_cycle
            /\ IF camera_window_open
               THEN \E ok \in BOOLEAN :      \* cv2.destroyAllWindows may raise
                       IF ok THEN /\ camera_window_open' = FALSE
                                  /\ windows_shown' = FALSE
                                  /\ pc' = "lights"
                       ELSE /\ UNCHANGED << camera_window_open, windows_shown >>
                            /\ pc' = "error_sleep"
               ELSE /\ UNCHANGED << camera_window_open, windows_shown >>
                    /\ pc' = "lights"
       ELSE /\ pc' = "lights"
            /\ UNCHANGED << result, camera_window_open, windows_shown,
                            resets_in_cycle >>
    /\ UNCHANGED << now, timers, picam2, is_running, camera_lock, leds, locals,
                    current_time, preview, last_attempt_time, selvars, snapshot, buttonvars, monitorvars,
                    unitvars, teardown >>

\* classify_waste, lines 215-223: camera present and rate limit
ClassifyEnter ==
    /\ pc = "classify"
    /\ IF picam2 /\ CooldownElapsed(now)
       THEN current_time' = now /\ pc' = "acquire"
       ELSE current_time' = None /\ pc' = "lights"
    /\ UNCHANGED << now, timers, result, camera_window_open, picam2, is_running,
                    camera_lock, leds, locals, preview, history, selvars, snapshot, buttonvars, monitorvars,
                    unitvars, windows_shown, teardown >>

\* line 225: `with self.camera_lock` blocks until the lock is free
Acquire ==
    /\ pc = "acquire"
    /\ LockAvailable
    /\ camera_lock' = "controller"
    /\ pc' = "capture"
    /\ UNCHANGED << now, timers, result, camera_window_open, picam2, is_running,
                    leds, locals, current_time, preview, history, selvars, snapshot, buttonvars, monitorvars,
                    unitvars, windows_shown, teardown >>

\* classify_waste returns: the `with` block is left, the local goes away
LeaveClassify(r, lct) ==
    /\ last_classification' = r.label
    /\ classification_confidence' = r.conf
    /\ last_classification_time' = lct
    /\ camera_lock' = LockAfterWith
    /\ current_time' = None
    /\ pc' = "lights"

\* lines 227-236: capture_array raises, yields an empty frame, or a frame
Capture ==
    /\ pc = "capture"
    /\ last_attempt_time' = current_time
    /\ \E outcome \in {"raise", "empty", "frame"} :
          CASE outcome = "raise" ->
                 /\ LeaveClassify(CameraErrorResult, CooldownAfterFailure)
                 /\ UNCHANGED << camera_window_open, windows_shown >>
            [] outcome = "empty" ->
                 /\ LeaveClassify(EmptyFrameResult, CooldownAfterFailure)
                 /\ UNCHANGED << camera_window_open, windows_shown >>
            [] outcome = "frame" ->
                 /\ camera_window_open' = TRUE
                 /\ windows_shown' = TRUE
                 /\ pc' = "infer"
                 /\ UNCHANGED << result, last_classification_time, camera_lock,
                                 current_time >>
    /\ UNCHANGED << now, lights_on_until, camera_active_until, picam2, is_running,
                    leds, locals, preview, resets_in_cycle, selvars, snapshot, buttonvars, monitorvars,
                    unitvars, teardown >>

\* lines 238-277: inference raises, or its detections are reduced to a result
Infer ==
    /\ pc = "infer"
    /\ \/ /\ LeaveClassify(CameraErrorResult, CooldownAfterFailure)
       \/ \E dets \in LoopDetections :
             /\ last_classification' = SelectBest(dets).label
             /\ classification_confidence' = SelectBest(dets).conf
             /\ pc' = "render"
             /\ UNCHANGED << last_classification_time, camera_lock, current_time >>
    /\ UNCHANGED << now, lights_on_until, camera_active_until, camera_window_open,
                    picam2, is_running, leds, locals, preview, history, selvars, snapshot, buttonvars, monitorvars,
                    unitvars, windows_shown, teardown >>

\* lines 279-296: annotate and show the frame, then stamp the cooldown
Render ==
    /\ pc = "render"
    /\ \/ LeaveClassify(CameraErrorResult, CooldownAfterFailure)
       \/ LeaveClassify([label |-> last_classification,
                         conf |-> classification_confidence], current_time)
    /\ UNCHANGED << now, lights_on_until, camera_active_until, camera_window_open,
                    picam2, is_running, leds, locals, preview, history, selvars, snapshot, buttonvars, monitorvars,
                    unitvars, windows_shown, teardown >>

\* lines 379-383
ManageLights ==
    /\ pc = "lights"
    /\ IF ~should_lights_be_on /\ lights_on_until > 0
       THEN /\ \E ok \in BOOLEAN : turn_off_lights(ok)
            /\ lights_on_until' = 0
       ELSE UNCHANGED << leds, lights_on_until >>
    /\ pc' = "display"
    /\ UNCHANGED << now, camera_active_until, last_classification_time, result,
                    camera_window_open, picam2, is_running, camera_lock, locals,
                    current_time, preview, history, selvars, snapshot, buttonvars, monitorvars,
                    unitvars, windows_shown, teardown >>

\* lines 385-386: update_display
Display ==
    /\ pc = "display"
    /\ \E drawn \in BOOLEAN :
          snapshot' = IF drawn THEN StationSnapshot(now) ELSE NoSnapshot
    /\ pc' = "sleep"
    /\ UNCHANGED << now, timers, result, camera_window_open, picam2, is_running,
                    camera_lock, leds, locals, current_time, preview, history,
                    selvars, buttonvars, monitorvars,
                    unitvars, windows_shown, teardown >>

\* line 388
Sleep ==
    /\ pc = "sleep"
    /\ pc' = "measure"
    /\ no_reading' = FALSE
    /\ snapshot' = NoSnapshot
    /\ UNCHANGED << now, timers, result, camera_window_open, picam2, is_running,
                    camera_lock, leds, locals, current_time, preview, history,
                    selvars, buttonvars, monitorvars,
                    lightvars, echovars, motionvars, windows_shown,
                    teardown >>

\* as AfterError, with the handler outside the while loop
AfterErrorEndsLoop == "cleanup"

\* lines 344-392: the handler is inside the while loop, the next tick follows
AfterError == "measure"

\* lines 390-392: an exception of the loop body is logged, then sleep(1)
ErrorSleep ==
    /\ pc = "error_sleep"
    /\ now' = NextTimePoint(now + ERROR_SLEEP)
    /\ pc' = AfterError
    /\ no_reading' = FALSE
    /\ UNCHANGED << timers, result, camera_window_open, picam2, is_running,
                    camera_lock, leds, locals, current_time, preview, history,
                    selvars, snapshot, buttonvars, monitorvars,
                    lightvars, echovars, motionvars, windows_shown,
                    teardown >>

\* run, lines 396-401: KeyboardInterrupt anywhere in the loop; unwinding
\* leaves the `with` block of classify_waste if it was entered and drops the
\* locals of the loop; the history of the loop is not followed any further
Interrupt ==
    /\ pc \notin {"cleanup", "stopped"}
    /\ camera_lock' = IF camera_lock = "controller" THEN LockAfterWith ELSE camera_lock
    /\ current_time' = None
    /\ distance' = None
    /\ object_detected' = FALSE
    /\ dark_environment' = FALSE
    /\ ldr' = "unread"
    /\ interrupted' = TRUE
    /\ no_reading' = FALSE
    /\ last_attempt_time' = None
    /\ resets_in_cycle' = 0
    /\ snapshot' = NoSnapshot
    /\ pc' = "cleanup"
    /\ UNCHANGED << now, timers, result, camera_window_open, picam2, is_running,
                    leds, preview, selvars, buttonvars, monitorvars, lightvars, echovars, motionvars,
                    windows_shown, oled_cleared, gpio_open, cleanup_failed >>

\* the steps of cleanup, in the order of lines 408-441
CleanupSteps == {"display", "window", "lights", "camera", "gpio"}

CleanupOrder(step) ==
    CASE step = "display" -> 1 [] step = "window" -> 2 [] step = "lights" -> 3
      [] step = "camera" -> 4 [] step = "gpio" -> 5

\* as StepAttempted, with one try block around the five steps
StepAttemptedInOneTry(F, step) ==
    \A f \in F : CleanupOrder(f) >= CleanupOrder(step)

\* every step sits in a try/except of its own: a step is attempted whatever
\* the steps before it did
StepAttempted(F, step) == TRUE

\* the step has something to do: lines 417 and 430 guard two of them
StepActs(step) ==
    CASE step = "window" -> camera_window_open
      [] step = "camera" -> picam2
      [] OTHER -> TRUE

\* cleanup, lines 403-443, when the hardware calls of the steps in F raise
CleanupUnder(F) ==
    LET done(step) == StepAttempted(F, step) /\ StepActs(step) /\ step \notin F
    IN /\ pc = "cleanup"
       /\ is_running' = FALSE
       /\ oled_cleared' = done("display")
       /\ windows_shown' = IF done("window") THEN FALSE ELSE windows_shown
       /\ IF StepAttempted(F, "lights")
          THEN turn_off_lights("lights" \notin F)
          ELSE UNCHANGED leds
       /\ picam2' = IF done("camera") THEN FALSE ELSE picam2
       /\ gpio_open' = IF done("gpio") THEN FALSE ELSE gpio_open
       /\ cleanup_failed' = { f \in F : StepAttempted(F, f) /\ StepActs(f) }
       /\ pc' = "stopped"
       /\ UNCHANGED << now, timers, result, camera_window_open, camera_lock,
                       locals, current_time, preview, history, selvars, snapshot, buttonvars, monitorvars,
                       unitvars, interrupted >>

\* the cleanup faults followed while the clock runs: the LED and camera steps
LoopCleanupFaults == {"lights", "camera"}

\* cleanup, lines 403-443: every step in its own try/except
Cleanup == \E F \in SUBSET LoopCleanupFaults : CleanupUnder(F)

\* cleanup with any of its steps failing
CleanupAnyFaults == \E F \in SUBSET CleanupSteps : CleanupUnder(F)

\* the second consumer of the camera: takes the lock, reads frames, releases it
PreviewAcquire ==
    /\ preview = "idle"
    /\ camera_lock = "free"
    /\ camera_lock' = "preview"
    /\ preview' = "capturing"
    /\ UNCHANGED << now, pc, timers, result, camera_window_open, picam2,
                    is_running, leds, locals, current_time, history, selvars, snapshot, buttonvars, monitorvars,
                    unitvars, windows_shown, teardown >>

PreviewRelease ==
    /\ preview = "capturing"
    /\ camera_lock' = "free"
    /\ preview' = "idle"
    /\ UNCHANGED << now, pc, timers, result, camera_window_open, picam2,
                    is_running, leds, locals, current_time, history, selvars, snapshot, buttonvars, monitorvars,
                    unitvars, windows_shown, teardown >>

Next ==
    \/ Advance
    \/ Measure
    \/ ArmCamera
    \/ ArmLights
    \/ CheckCamera
    \/ ClassifyEnter
    \/ Acquire
    \/ Capture
    \/ Infer
    \/ Render
    \/ ManageLights
    \/ Display
    \/ Sleep
    \/ ErrorSleep
    \/ Interrupt
    \/ Cleanup
    \/ PreviewAcquire
    \/ PreviewRelease

Spec == Init /\ [][Next]_vars

\* a step in which no pixel write of turn_on_lights (lines 169-171) or of
\* turn_off_lights (lines 180-181) raises
LedWritesSucceed ==
    /\ (/\ pc = "arm_lights"
        /\ pc' = "check"
        /\ ShouldArmLights(object_detected, dark_environment))
          => turn_on_lights(TRUE)
    /\ (/\ pc = "lights"
        /\ pc' = "display"
        /\ ~should_lights_be_on
        /\ lights_on_until > 0)
          => turn_off_lights(TRUE)

\* the station with LED hardware that does not fail, and the controller as
\* the only user of the camera
NextSoundLeds ==
    \/ Advance
    \/ Measure
    \/ ArmCamera
    \/ ArmLights /\ LedWritesSucceed
    \/ CheckCamera
    \/ ClassifyEnter
    \/ Acquire
    \/ Capture
    \/ Infer
    \/ Render
    \/ ManageLights /\ LedWritesSucceed
    \/ Display
    \/ Sleep
    \/ ErrorSleep
    \/ Interrupt
    \/ Cleanup

SpecSoundLeds == Init /\ [][NextSoundLeds]_vars

\* the clock read of line 172 is less than 5 s after the one of line 357,
\* which armed the camera window in the same tick
ArmedPromptly ==
    ShouldArmLights(object_detected, dark_environment)
        => now - (camera_active_until - CAMERA_TIMEOUT) < 5

\* the station whose ticks arm the two windows promptly, and the controller
\* as the only user of the camera
NextPromptArm ==
    \/ Advance
    \/ Measure
    \/ ArmCamera
    \/ ArmLights /\ ArmedPromptly
    \/ CheckCamera
    \/ ClassifyEnter
    \/ Acquire
    \/ Capture
    \/ Infer
    \/ Render
    \/ ManageLights
    \/ Display
    \/ Sleep
    \/ ErrorSleep
    \/ Interrupt
    \/ Cleanup

SpecPromptArm == Init /\ [][NextPromptArm]_vars

\* the station that is never shut down, the controller as the only user of
\* the camera: the loop keeps ticking
NextTicking ==
    \/ Advance
    \/ Measure
    \/ ArmCamera
    \/ ArmLights
    \/ CheckCamera
    \/ ClassifyEnter
    \/ Acquire
    \/ Capture
    \/ Infer
    \/ Render
    \/ ManageLights
    \/ Display
    \/ Sleep
    \/ ErrorSleep

SpecTicking == Init /\ [][NextTicking]_vars /\ WF_vars(NextTicking)

\* the station within its first second, shut down at any step, with any cleanup
\* step failing: cleanup reads no clock
NextTeardown ==
    \/ Measure
    \/ ArmCamera
    \/ ArmLights
    \/ CheckCamera
    \/ ClassifyEnter
    \/ Acquire
    \/ Capture
    \/ Infer
    \/ Render
    \/ ManageLights
    \/ Display
    \/ Sleep
    \/ Interrupt
    \/ CleanupAnyFaults

SpecTeardown == Init /\ [][NextTeardown]_vars

\* ------------------------------------------ the selection, on its own inputs
\* every detection list of at most MaxDets detections
DetectionLists == UNION { [1 .. n -> Detection] : n \in 0 .. MaxDets }

NotSelected == [label |-> WAITING, conf |-> 0]

InitSelect ==
    /\ now = StartTime
    /\ pc = "measure"
    /\ lights_on_until = 0
    /\ camera_active_until = 0
    /\ last_classification_time = 0
    /\ last_classification = WAITING
    /\ classification_confidence = 0
    /\ camera_window_open = FALSE
    /\ picam2 = TRUE
    /\ is_running = TRUE
    /\ camera_lock = "free"
    /\ leds = FALSE
    /\ distance = None
    /\ object_detected = FALSE
    /\ dark_environment = FALSE
    /\ ldr = "unread"
    /\ current_time = None
    /\ preview = "idle"
    /\ last_attempt_time = None
    /\ resets_in_cycle = 0
    /\ last_activate_time = None
    /\ scenario = None
    /\ no_reading = FALSE
    /\ EchoAtRest
    /\ MotionAtRest
    /\ windows_shown = FALSE
    /\ interrupted = FALSE
    /\ oled_cleared = FALSE
    /\ gpio_open = TRUE
    /\ cleanup_failed = {}
    /\ sel_in \in DetectionLists
    /\ sel_out = NotSelected
    /\ snapshot = NoSnapshot
    /\ ButtonAtRest
    /\ MonitorAtRest

\* lines 244-277 applied to the detections of one inference
Select ==
    /\ sel_out = NotSelected
    /\ sel_out' = SelectBest(sel_in)
    /\ UNCHANGED << now, pc, timers, result, camera_window_open, picam2,
                    is_running, camera_lock, leds, locals, current_time, preview,
                    history, sel_in, snapshot, buttonvars, monitorvars,
                    unitvars, windows_shown, teardown >>

NextSelect == Select

SpecSelect == InitSelect /\ [][NextSelect]_vars


\* ------------------------------------------- the motion light (src/PR2B)
\* LIGHT_ON_DURATION of the motion light, seconds
LIGHT_ON_DURATION_PR2B == 5

\* readings (cm) of the motion light's sensor, and the example's four ticks
LightReadings == {40, 100}
ExampleReadings == << 100, 100, 40, 100 >>

\* the variables the motion light does not have
stationvars == << no_reading, echovars, motionvars, camera_active_until,
                 last_classification_time, result,
                 camera_window_open, picam2, is_running, camera_lock,
                 current_time, preview, history, windows_shown, oled_cleared,
                 cleanup_failed, selvars, snapshot, buttonvars, monitorvars >>

\* module level state of the motion light, lines 23-40, at the start of main
InitLights ==
    /\ now = 0
    /\ pc = "start"
    /\ lights_on_until = 0
    /\ camera_active_until = 0
    /\ last_classification_time = 0
    /\ last_classification = WAITING
    /\ classification_confidence = 0
    /\ camera_window_open = FALSE
    /\ picam2 = FALSE
    /\ is_running = TRUE
    /\ camera_lock = "free"
    /\ leds \in BOOLEAN
    /\ distance = None
    /\ object_detected = FALSE
    /\ dark_environment = FALSE
    /\ ldr = "unread"
    /\ current_time = None
    /\ preview = "idle"
    /\ last_attempt_time = None
    /\ resets_in_cycle = 0
    /\ last_activate_time = None
    /\ scenario = 0
    /\ no_reading = FALSE
    /\ EchoAtRest
    /\ MotionAtRest
    /\ windows_shown = FALSE
    /\ interrupted = FALSE
    /\ oled_cleared = FALSE
    /\ gpio_open = TRUE
    /\ cleanup_failed = {}
    /\ sel_in = << >>
    /\ sel_out = [label |-> WAITING, conf |-> 0]
    /\ snapshot = NoSnapshot
    /\ ButtonAtRest
    /\ MonitorAtRest

\* as LightExpiry, adding the duration to a window that is still running
LightExpiryAccumulating ==
    (IF now < lights_on_until THEN lights_on_until ELSE now)
        + LIGHT_ON_DURATION_PR2B

\* line 132: the expiry turn_on_lights stores
LightExpiry == now + LIGHT_ON_DURATION_PR2B

\* time passes between any two steps of the motion light
LightsTick ==
    /\ pc \in {"start", "sense", "arm", "manage", "nap"}
    /\ now < MaxLightTime
    /\ now' = now + 1
    /\ UNCHANGED << pc, lights_on_until, leds, locals, lightvars, interrupted,
                    gpio_open, stationvars >>

\* line 168: the LEDs are switched off before the loop; an exception of the
\* pixel write is not caught by main and reaches the finally block
LightsStart ==
    /\ pc = "start"
    /\ \E ok \in BOOLEAN :
          IF ok THEN leds' = FALSE /\ pc' = "sense"
          ELSE UNCHANGED leds /\ pc' = "finally"
    /\ UNCHANGED << now, lights_on_until, locals, lightvars, interrupted,
                    gpio_open, stationvars >>

\* the example goes on with this tick: its reading, in the dark, in its second
ScenarioAfter(d, dark) ==
    IF scenario = None THEN None
    ELSE IF scenario < Len(ExampleReadings)
    THEN IF d = ExampleReadings[scenario + 1] /\ dark /\ now = scenario
         THEN scenario + 1 ELSE None
    ELSE IF d # None /\ d <= MOTION_THRESHOLD /\ dark THEN None ELSE scenario

\* lines 172-180: measure_distance (None on timeout or fault), is_dark
LightsMeasure ==
    /\ pc = "sense"
    /\ \E d \in LightReadings \cup {None}, level \in LdrReads :
          /\ distance' = d
          /\ scenario' = ScenarioAfter(d, is_dark(level))
          /\ IF d # None
             THEN /\ object_detected' = (d <= MOTION_THRESHOLD)
                  /\ dark_environment' = is_dark(level)
                  /\ ldr' = level
                  /\ pc' = "arm"
             ELSE /\ object_detected' = FALSE
                  /\ dark_environment' = FALSE
                  /\ ldr' = "unread"
                  /\ pc' = "manage"
    /\ UNCHANGED << now, lights_on_until, leds, last_activate_time, interrupted,
                    gpio_open, stationvars >>

\* as LightShouldArm, without the darkness test
LightShouldArmInDaylight(obj, dark) == obj

\* line 185
LightShouldArm(obj, dark) == obj /\ dark

\* lines 185-186 with turn_on_lights, lines 119-134 (no try/except around
\* the pixel write)
LightsArm ==
    /\ pc = "arm"
    /\ IF LightShouldArm(object_detected, dark_environment)
       THEN \E ok \in BOOLEAN :
               IF ok
               THEN /\ leds' = TRUE
                    /\ lights_on_until' = LightExpiry
                    /\ last_activate_time' = now
                    /\ scenario' = IF scenario # None /\ now # scenario - 1
                                   THEN None ELSE scenario
                    /\ pc' = "manage"
               ELSE /\ pc' = "finally"
                    /\ UNCHANGED << leds, lights_on_until, lightvars >>
       ELSE /\ pc' = "manage"
            /\ UNCHANGED << leds, lights_on_until, lightvars >>
    /\ UNCHANGED << now, locals, interrupted, gpio_open, stationvars >>

\* lines 189-198 (the same three lines in both branches) with
\* turn_off_lights, lines 136-144
LightsManage ==
    /\ pc = "manage"
    /\ IF ~should_lights_be_on /\ lights_on_until > 0
       THEN \E ok \in BOOLEAN :
               IF ok
               THEN leds' = FALSE /\ lights_on_until' = 0 /\ pc' = "nap"
               ELSE UNCHANGED << leds, lights_on_until >> /\ pc' = "finally"
       ELSE UNCHANGED << leds, lights_on_until >> /\ pc' = "nap"
    /\ distance' = None
    /\ object_detected' = FALSE
    /\ dark_environment' = FALSE
    /\ ldr' = "unread"
    /\ UNCHANGED << now, lightvars, interrupted, gpio_open, stationvars >>

\* line 201
LightsSleep ==
    /\ pc = "nap"
    /\ pc' = "sense"
    /\ UNCHANGED << now, lights_on_until, leds, locals, lightvars, interrupted,
                    gpio_open, stationvars >>

\* lines 203-204: KeyboardInterrupt anywhere in the try block
LightsInterrupt ==
    /\ pc \in {"start", "sense", "arm", "manage", "nap"}
    /\ interrupted' = TRUE
    /\ pc' = "finally"
    /\ UNCHANGED << now, lights_on_until, leds, locals, lightvars, gpio_open,
                    stationvars >>

\* lines 206-210: an exception of turn_off_lights leaves the block at once
LightsFinally ==
    /\ pc = "finally"
    /\ \E ok \in BOOLEAN :
          IF ok THEN leds' = FALSE /\ gpio_open' = FALSE
          ELSE UNCHANGED << leds, gpio_open >>
    /\ pc' = "halted"
    /\ UNCHANGED << now, lights_on_until, locals, lightvars, interrupted,
                    stationvars >>

NextLights ==
    \/ LightsTick
    \/ LightsStart
    \/ LightsMeasure
    \/ LightsArm
    \/ LightsManage
    \/ LightsSleep
    \/ LightsInterrupt
    \/ LightsFinally

SpecLights == InitLights /\ [][NextLights]_vars


\* --------------------------------------- measure_distance, on its own clock
\* The clock of this part counts units of 10 ms.
\* line 126: the 0.1 s of the timeout
ECHO_TIMEOUT == 10

\* line 140: (pulse_duration * 34300) / 2, for a pulse in units of 10 ms
PulseDistance(pulse) == (pulse * 343) \div 2

\* the fields of the station and of the other parts, as constructed
StationIdle ==
    /\ lights_on_until = 0
    /\ camera_active_until = 0
    /\ last_classification_time = 0
    /\ last_classification = WAITING
    /\ classification_confidence = 0
    /\ camera_window_open = FALSE
    /\ picam2 = FALSE
    /\ is_running = TRUE
    /\ camera_lock = "free"
    /\ leds = FALSE
    /\ object_detected = FALSE
    /\ dark_environment = FALSE
    /\ ldr = "unread"
    /\ current_time = None
    /\ preview = "idle"
    /\ last_attempt_time = None
    /\ resets_in_cycle = 0
    /\ no_reading = FALSE
    /\ last_activate_time = None
    /\ scenario = None
    /\ windows_shown = FALSE
    /\ interrupted = FALSE
    /\ oled_cleared = FALSE
    /\ gpio_open = TRUE
    /\ cleanup_failed = {}
    /\ sel_in = << >>
    /\ sel_out = [label |-> WAITING, conf |-> 0]
    /\ snapshot = NoSnapshot
    /\ ButtonAtRest
    /\ MonitorAtRest

\* the variables measure_distance does not touch
besideEcho == << timers, result, camera_window_open, picam2, is_running,
                camera_lock, leds, object_detected, dark_environment, ldr,
                current_time, preview, history, no_reading, lightvars,
                windows_shown, teardown, selvars, snapshot, buttonvars, monitorvars, motionvars >>

\* a call of measure_distance begins, lines 118-120
InitEcho ==
    /\ now \in 0 .. 1
    /\ pc = "trigger"
    /\ distance = None
    /\ echo \in {0, 1}
    /\ gpio_broken = FALSE
    /\ start_time = None
    /\ end_time = None
    /\ timeout = None
    /\ call_start = None
    /\ echo_seen = "nothing"
    /\ StationIdle
    /\ MotionAtRest

InMeasure == pc \in {"trigger", "wait_high", "wait_low"}

\* the clock advances while the call waits (lines 121-126 take 10 us)
EchoTick ==
    /\ pc \in {"wait_high", "wait_low"}
    /\ now < MaxEchoClock
    /\ now' = now + 1
    /\ UNCHANGED << pc, distance, echovars, besideEcho >>

\* the sensor drives the echo line
EchoChange ==
    /\ InMeasure
    /\ echo' = 1 - echo
    /\ UNCHANGED << now, pc, distance, gpio_broken, start_time, end_time,
                    timeout, call_start, echo_seen, besideEcho >>

\* from now on the GPIO calls raise
GpioBreak ==
    /\ InMeasure
    /\ ~gpio_broken
    /\ gpio_broken' = TRUE
    /\ UNCHANGED << now, pc, distance, echo, start_time, end_time, timeout,
                    call_start, echo_seen, besideEcho >>

\* lines 143-145: the except branch returns None
ReturnNone ==
    /\ distance' = None
    /\ pc' = "returned"

\* lines 121-126: the trigger pulse, then the deadline
Trigger ==
    /\ pc = "trigger"
    /\ IF gpio_broken
       THEN /\ ReturnNone
            /\ UNCHANGED << start_time, timeout, call_start >>
       ELSE /\ start_time' = now
            /\ timeout' = now + ECHO_TIMEOUT
            /\ call_start' = now
            /\ pc' = "wait_high"
            /\ UNCHANGED distance
    /\ UNCHANGED << now, echo, gpio_broken, end_time, echo_seen, besideEcho >>

\* as DeadlineAfterPoll, the deadline moved along with the poll
DeadlineAfterPollMoved == now + ECHO_TIMEOUT

\* lines 128-137: the wait loops leave the deadline of line 126 alone
DeadlineAfterPoll == timeout

\* lines 128-133: one pass of the first wait loop
WaitHigh ==
    /\ pc = "wait_high"
    /\ IF gpio_broken
       THEN /\ ReturnNone
            /\ UNCHANGED << start_time, end_time, timeout, echo_seen >>
       ELSE IF echo = 0
       THEN /\ start_time' = now
            /\ timeout' = DeadlineAfterPoll
            /\ IF start_time' > timeout'
               THEN ReturnNone
               ELSE UNCHANGED << pc, distance >>
            /\ UNCHANGED << end_time, echo_seen >>
       ELSE /\ end_time' = now
            /\ echo_seen' = "high"
            /\ pc' = "wait_low"
            /\ UNCHANGED << start_time, timeout, distance >>
    /\ UNCHANGED << now, echo, gpio_broken, call_start, besideEcho >>

\* lines 134-141: one pass of the second wait loop, or the result
WaitLow ==
    /\ pc = "wait_low"
    /\ IF gpio_broken
       THEN /\ ReturnNone
            /\ UNCHANGED << end_time, timeout, echo_seen >>
       ELSE IF echo = 1
       THEN /\ end_time' = now
            /\ timeout' = DeadlineAfterPoll
            /\ IF end_time' > timeout'
               THEN ReturnNone
               ELSE UNCHANGED << pc, distance >>
            /\ UNCHANGED echo_seen
       ELSE /\ distance' = PulseDistance(end_time - start_time)
            /\ echo_seen' = "high_then_low"
            /\ pc' = "returned"
            /\ UNCHANGED << end_time, timeout >>
    /\ UNCHANGED << now, echo, gpio_broken, start_time, call_start, besideEcho >>

\* the steps of measure_distance itself
MeasureSteps == Trigger \/ WaitHigh \/ WaitLow

NextEcho ==
    \/ EchoTick
    \/ EchoChange
    \/ GpioBreak
    \/ Trigger
    \/ WaitHigh
    \/ WaitLow

\* the clock advances and the call keeps running; the echo line and the
\* GPIO fault are free
SpecEcho ==
    InitEcho /\ [][NextEcho]_vars /\ WF_vars(EchoTick) /\ WF_vars(MeasureSteps)


\* -------------------------------------------- detect_motion, on its samples
\* line 164: the change (cm) above which motion is reported
MOTION_DELTA == 5

\* distances (cm) given to detect_motion
MotionDistances == {0, 5, 6, 10, 11, 16, 40, 100}

Abs(x) == IF x < 0 THEN -x ELSE x

\* as MotionOnFirstSample, with the missing baseline taken as 0
MotionOnFirstSampleAgainstZero(d) == Abs(d - 0) > MOTION_DELTA

\* lines 157-159: the first sample sets the baseline and reports nothing
MotionOnFirstSample(d) == FALSE

\* as MotionOnLaterSample, compared with the first sample ever given
MotionOnLaterSampleAgainstFirst(d) == Abs(d - fed[1]) > MOTION_DELTA

\* lines 161-164
MotionOnLaterSample(d) == Abs(d - previous_distance) > MOTION_DELTA

InitMotion ==
    /\ now = 0
    /\ pc = "idle"
    /\ distance = None
    /\ EchoAtRest
    /\ StationIdle
    /\ MotionAtRest

\* detect_motion, lines 155-164, called with the next sample
detect_motion ==
    \E d \in MotionDistances :
       /\ Len(fed) < MaxSamples
       /\ motion' = IF previous_distance = None
                    THEN MotionOnFirstSample(d)
                    ELSE MotionOnLaterSample(d)
       /\ previous_distance' = d
       /\ fed' = Append(fed, d)
       /\ UNCHANGED << now, pc, distance, echovars, timers, result,
                       camera_window_open, picam2, is_running, camera_lock,
                       leds, object_detected, dark_environment, ldr,
                       current_time,
                       preview, history, no_reading, lightvars, windows_shown,
                       teardown, selvars, snapshot, buttonvars, monitorvars >>

NextMotion == detect_motion

SpecMotion == InitMotion /\ [][NextMotion]_vars


\* ======================================= environmental station (src/PR2A)
\* check_buttons of src/PR2A/main.py on its own, called at any instant; the
\* clock `now` counts tenths of a second

\* line 41: button_debounce = 0.3
BUTTON_DEBOUNCE == 3

\* the clock at the first call, and the last instant followed
ButtonStart == 5
MaxButtonClock == 17
\* calls of check_buttons followed
MaxCalls == 6

\* everything but the clock and the variables of the two small programs
besideUnits == << pc, distance, timers, result, camera_window_open, picam2,
                 is_running, camera_lock, leds, object_detected,
                 dark_environment, ldr, current_time, preview, history,
                 no_reading, lightvars, windows_shown, teardown, selvars,
                 snapshot, motionvars, echovars >>

InitButton ==
    /\ now = ButtonStart
    /\ pc = "idle"
    /\ distance = None
    /\ EchoAtRest
    /\ StationIdle
    /\ MotionAtRest

\* time passes between two calls
ButtonTick ==
    /\ now < MaxButtonClock
    /\ now' = now + 1
    /\ UNCHANGED << besideUnits, buttonvars, monitorvars >>

\* the button is pressed (line pulled to 0) or released
ButtonChange ==
    /\ button' = 1 - button
    /\ UNCHANGED << now, besideUnits, current_mode, last_button_time, calls,
                    presses, monitorvars >>

\* as Debounced, with the test of line 70 left out
DebouncedNever(t) == FALSE

\* line 70: the call is within the debounce interval of the last press
Debounced(t) == t - last_button_time < BUTTON_DEBOUNCE

\* lines 66-79; gpio_read at line 73 may raise, which ends the call
check_buttons ==
    /\ calls < MaxCalls
    /\ calls' = calls + 1
    /\ \E read_ok \in BOOLEAN :
          IF ~Debounced(now) /\ read_ok /\ button = 0
          THEN /\ current_mode' = (current_mode + 1) % 4
               /\ last_button_time' = now
               /\ presses' = presses + 1
          ELSE UNCHANGED << current_mode, last_button_time, presses >>
    /\ UNCHANGED << now, besideUnits, button, monitorvars >>

NextButton == ButtonTick \/ ButtonChange \/ check_buttons

SpecButton == InitButton /\ [][NextButton]_vars


\* ========================================= temperature monitor (src/PR1A)
\* the script of src/PR1A/main.py, one step per sensor read, per decision and
\* per LED write; a sensor read gives a temperature or fails

\* temperatures (degrees C) a read may give, and the reads followed
Temperatures == {20, 21, 22}
MaxReads == 7

\* lines 87-89, 93-95 and 99-101: NORMAL on, ALERT off, WARNING off
NormalOnly ==
    << << LED_NORMAL, 1 >>, << LED_ALERT, 0 >>, << LED_WARNING, 0 >> >>

\* as RiseWrites, without the escalation of lines 77-79
RiseWritesAlertOnly(n) ==
    << << LED_ALERT, 1 >>, << LED_NORMAL, 0 >>, << LED_WARNING, 0 >> >>

\* lines 73-81: the LED writes after a rise that made the counter n
RiseWrites(n) ==
    << << LED_ALERT, 1 >>, << LED_NORMAL, 0 >> >>
      \o (IF n >= 2
          THEN << << LED_WARNING, 1 >>, << LED_ALERT, 0 >> >>
          ELSE << << LED_WARNING, 0 >> >>)

\* as FinallyWrites, leaving the pin of the WARNING LED out
FinallyWritesTwoPins == << << LED_NORMAL, 0 >>, << LED_ALERT, 0 >> >>

\* lines 112-113: led_off for each pin
FinallyWrites ==
    << << LED_NORMAL, 0 >>, << LED_ALERT, 0 >>, << LED_WARNING, 0 >> >>

\* as AppendReading, dropping the newest reading of a full buffer
AppendReadingDropsNewest(ts, t) ==
    IF Len(ts) + 1 > 5 THEN ts ELSE Append(ts, t)

\* lines 58-62: append, then drop the oldest beyond five
AppendReading(ts, t) ==
    IF Len(ts) + 1 > 5 THEN Tail(Append(ts, t)) ELSE Append(ts, t)

\* line 67 and line 69: newest minus oldest is more than 1
Rise(ts) == ts[Len(ts)] - ts[1] > 1

\* where the script goes after the last LED write of a block
AfterWrites(p) ==
    CASE p = "startup" -> "read"
      [] p = "leds" -> "sleep"
      [] p = "finally" -> "finally"

InitMonitor ==
    /\ now = 0
    /\ pc = "idle"
    /\ distance = None
    /\ EchoAtRest
    /\ StationIdle
    /\ MotionAtRest

\* led_on / led_off, lines 19-25: the next write of the block under way; the
\* write is taken to succeed, the script has no handler for a failing one
LedWrite ==
    /\ mpc \in {"startup", "leds", "finally"}
    /\ todo # << >>
    /\ led' = [led EXCEPT ![todo[1][1]] = todo[1][2]]
    /\ todo' = Tail(todo)
    /\ mpc' = IF Tail(todo) = << >> THEN AfterWrites(mpc) ELSE mpc
    /\ UNCHANGED << now, besideUnits, buttonvars, temps, consecutive_alerts,
                    temperature, h, readings, reads >>

\* lines 45-54: a temperature, or None after a RuntimeError
ReadSensor ==
    /\ mpc = "read"
    /\ reads < MaxReads
    /\ reads' = reads + 1
    /\ \E t \in Temperatures \cup {None} : temperature' = t
    /\ mpc' = "store"
    /\ UNCHANGED << now, besideUnits, buttonvars, temps, consecutive_alerts,
                    led, todo, h, readings >>

\* lines 56-65 and 91-101: buffer the reading; fewer than five, or no
\* reading: NORMAL only
Store ==
    /\ mpc = "store"
    /\ IF temperature # None
       THEN /\ temps' = AppendReading(temps, temperature)
            /\ readings' = Append(readings, temperature)
            /\ IF Len(temps') = 5
               THEN mpc' = "evaluate" /\ todo' = todo
               ELSE mpc' = "leds" /\ todo' = NormalOnly
       ELSE /\ mpc' = "leds"
            /\ todo' = NormalOnly
            /\ UNCHANGED << temps, readings >>
    /\ UNCHANGED << now, besideUnits, buttonvars, consecutive_alerts,
                    temperature, led, h, reads >>

\* lines 67-89: count the rise, or reset the counter
Evaluate ==
    /\ mpc = "evaluate"
    /\ IF Rise(temps)
       THEN /\ consecutive_alerts' = consecutive_alerts + 1
            /\ todo' = RiseWrites(consecutive_alerts')
       ELSE /\ consecutive_alerts' = 0
            /\ todo' = NormalOnly
    /\ mpc' = "leds"
    /\ UNCHANGED << now, besideUnits, buttonvars, temps, temperature, led, h,
                    readings, reads >>

\* line 104
MonitorSleep ==
    /\ mpc = "sleep"
    /\ mpc' = "read"
    /\ temperature' = None
    /\ UNCHANGED << now, besideUnits, buttonvars, temps, consecutive_alerts,
                    led, todo, h, readings, reads >>

\* lines 106-113: KeyboardInterrupt anywhere inside the try block
MonitorInterrupt ==
    /\ mpc \notin {"finally", "done"}
    /\ mpc' = "finally"
    /\ todo' = FinallyWrites
    /\ temperature' = None
    /\ UNCHANGED << now, besideUnits, buttonvars, temps, consecutive_alerts,
                    led, h, readings, reads >>

\* line 114
MonitorClose ==
    /\ mpc = "finally"
    /\ todo = << >>
    /\ h' = FALSE
    /\ mpc' = "done"
    /\ UNCHANGED << now, besideUnits, buttonvars, temps, consecutive_alerts,
                    temperature, led, todo, readings, reads >>

NextMonitor ==
    \/ LedWrite
    \/ ReadSensor
    \/ Store
    \/ Evaluate
    \/ MonitorSleep
    \/ MonitorInterrupt
    \/ MonitorClose

SpecMonitor == InitMonitor /\ [][NextMonitor]_vars


\* =================================================================== claims
\* the controller is inside the `with self.camera_lock` block
InCameraSection == pc \in {"capture", "infer", "render"}

\* the controller is in the loop and not inside the `with` block
InLoopOutsideSection ==
    pc \in {"measure", "arm_camera", "arm_lights", "check", "classify",
            "acquire", "lights", "display", "sleep", "error_sleep"}

\* a step in which capture_array is called
CaptureStep == pc = "capture" /\ pc' \in {"infer", "lights"}

\* a step of CheckCamera that finds the camera window inactive
IdleCheckStep ==
    pc = "check" /\ pc' \in {"lights", "error_sleep"} /\ now >= camera_active_until

\* the detections of the example of section 8
ExampleDetections ==
    << [label |-> "plastic", conf |-> 55], [label |-> "paper", conf |-> 72],
       [label |-> "unknown", conf |-> 99] >>

\* C1: of two calls of classify_waste whose call times are less than
\* CLASSIFICATION_DELAY apart at most one captures: every capture is made by a
\* call at least the cooldown after the previous call that captured.
C1_AtMostOneCapturePerCooldown ==
    [][CaptureStep =>
          (last_attempt_time = None
           \/ current_time - last_attempt_time >= CLASSIFICATION_DELAY)]_vars

\* C2: once classify_waste has returned, last_classification_time is the call
\* time of the last call that captured, whether that attempt failed or not.
C2_FailedAttemptConsumesCooldown ==
    (InLoopOutsideSection /\ last_attempt_time # None)
        => last_classification_time = last_attempt_time

\* C3: an attempt that returns out of the capture (exception, empty frame) or
\* out of the inference (exception) leaves CAMERA ERROR with confidence 0.
C3_FailureGivesCameraError ==
    [][(pc \in {"capture", "infer"} /\ pc' = "lights")
          => (last_classification' = CAMERA_ERROR
              /\ classification_confidence' = 0)]_vars

\* C4: the stored result is the mapped category and confidence of a detection
\* of maximal confidence among those above 60 with a label of LABEL_MAPPING,
\* and UNIDENTIFIED with confidence 0 when there is none.
C4_SelectionIsBestQualifying ==
    sel_out # NotSelected =>
        LET Q == { i \in DOMAIN sel_in :
                     sel_in[i].conf > 60 /\ InLabelMapping(sel_in[i].label) }
        IN IF Q = {}
           THEN sel_out = [label |-> UNIDENTIFIED, conf |-> 0]
           ELSE \E i \in Q :
                   /\ \A j \in Q : sel_in[j].conf <= sel_in[i].conf
                   /\ sel_out = [label |-> LABEL_MAPPING(sel_in[i].label),
                                 conf |-> sel_in[i].conf]

C4_Witness ==
    sel_in = ExampleDetections /\ sel_out = [label |-> "PAPER", conf |-> 72]

\* C5: the controller is inside the capture+infer+render section only while
\* it holds camera_lock, and never while the second consumer is inside its own.
C5_CameraSectionExclusive ==
    /\ InCameraSection => camera_lock = "controller"
    /\ ~(InCameraSection /\ preview = "capturing")

C5_Witness == pc = "infer" /\ camera_lock = "controller" /\ preview = "idle"

\* C6: outside the `with` block (between ticks, at the display, in teardown,
\* after an early return or an exception) the controller does not hold the lock.
C6_LockScopedToAttempt == ~InCameraSection => camera_lock # "controller"

C6_Witness ==
    pc = "lights" /\ last_classification = CAMERA_ERROR /\ camera_lock = "free"

\* C7 as stated: in a cycle in which the camera window was armed, the tick that
\* finds it inactive has made the reset fire exactly once in that cycle.
C7_ResetExactlyOncePerCycle ==
    [][(IdleCheckStep /\ camera_active_until > 0) => resets_in_cycle' = 1]_vars

\* C7 amended: the reset fires at most once per cycle; the first tick that
\* finds the window inactive fires it when the result is not WAITING and
\* leaves the result alone when it is WAITING; the preview window is closed
\* after every idle check that completes.
C7_ResetAtMostOncePerCycle ==
    [][/\ resets_in_cycle' <= 1
       /\ (IdleCheckStep /\ last_classification # WAITING)
             => (resets_in_cycle = 0 /\ resets_in_cycle' = 1)
       /\ (IdleCheckStep /\ last_classification = WAITING)
             => resets_in_cycle' = resets_in_cycle
       /\ (IdleCheckStep /\ pc' = "lights") => ~camera_window_open']_vars

C7_Witness ==
    /\ pc = "lights"
    /\ camera_active_until > 0
    /\ now >= camera_active_until
    /\ resets_in_cycle = 1
    /\ ~camera_window_open

\* C8: a tick that finds the camera window inactive leaves WAITING with
\* confidence 0; the result becomes WAITING only in such a tick; the result
\* changes only there and inside a classification attempt.
C8_ResetExactlyWhenIdle ==
    [][/\ IdleCheckStep
             => (last_classification' = WAITING /\ classification_confidence' = 0)
       /\ (last_classification' = WAITING /\ last_classification # WAITING)
             => IdleCheckStep
       /\ (last_classification' # last_classification
           \/ classification_confidence' # classification_confidence)
             => (IdleCheckStep \/ InCameraSection)]_vars

C8_Witness ==
    /\ pc = "display"
    /\ last_attempt_time # None
    /\ resets_in_cycle = 1
    /\ last_classification = WAITING
    /\ classification_confidence = 0

\* the three steps of a tick with a reading: lines 350, 356-357, 360-361
DetectStep == pc = "measure" /\ pc' = "arm_camera"
ArmCameraStep == pc = "arm_camera" /\ pc' = "arm_lights"
ArmLightsStep == pc = "arm_lights" /\ pc' = "check"

\* C9 as stated: object_detected = (distance <= MOTION_THRESHOLD); the camera
\* window is re-armed to now + CAMERA_TIMEOUT iff object_detected; the light
\* window is armed (LEDs on, expiry now + LIGHT_ON_DURATION) iff object_detected
\* and dark.
C9_ArmingAsStated ==
    [][/\ DetectStep => (object_detected' = (distance' <= MOTION_THRESHOLD))
       /\ ArmCameraStep =>
             IF object_detected
             THEN camera_active_until' = now + CAMERA_TIMEOUT
             ELSE camera_active_until' = camera_active_until
       /\ ArmLightsStep =>
             IF object_detected /\ dark_environment
             THEN leds' /\ lights_on_until' = now + LIGHT_ON_DURATION
             ELSE leds' = leds /\ lights_on_until' = lights_on_until]_vars

\* C9 amended: as stated, except that with object_detected and dark the light
\* window is armed unless the LED write raises, and is then left as it was.
C9_ArmingUnlessLedFault ==
    [][/\ DetectStep => (object_detected' = (distance' <= MOTION_THRESHOLD))
       /\ ArmCameraStep =>
             IF object_detected
             THEN camera_active_until' = now + CAMERA_TIMEOUT
             ELSE camera_active_until' = camera_active_until
       /\ ArmLightsStep =>
             IF object_detected /\ dark_environment
             THEN \/ leds' /\ lights_on_until' = now + LIGHT_ON_DURATION
                  \/ leds' = leds /\ lights_on_until' = lights_on_until
             ELSE leds' = leds /\ lights_on_until' = lights_on_until]_vars

C9_Witness ==
    /\ pc = "check"
    /\ leds
    /\ lights_on_until = now + LIGHT_ON_DURATION
    /\ camera_active_until = now + CAMERA_TIMEOUT

\* C10: arming the camera window leaves the other two timers unchanged; arming
\* or clearing the light window leaves the other two unchanged; a
\* classification attempt leaves the light and camera windows unchanged.
C10_WindowsIndependent ==
    [][/\ ArmCameraStep
             => (lights_on_until' = lights_on_until
                 /\ last_classification_time' = last_classification_time)
       /\ (ArmLightsStep \/ (pc = "lights" /\ pc' = "display"))
             => (camera_active_until' = camera_active_until
                 /\ last_classification_time' = last_classification_time)
       /\ pc \in {"classify", "acquire", "capture", "infer", "render"}
             => (lights_on_until' = lights_on_until
                 /\ camera_active_until' = camera_active_until)]_vars

C10_Witness ==
    /\ pc = "lights"
    /\ last_classification_time = now
    /\ lights_on_until > now
    /\ camera_active_until > lights_on_until

\* ------------------------------------------------------------ motion light
\* a turn_on_lights call of the motion light that returned
ActivateStep == pc = "arm" /\ pc' = "manage" /\ object_detected /\ dark_environment

ManageLightsStep == pc = "lights" /\ pc' = "display"

\* C12: after the manage-lights step of a tick the LEDs are lit only if the
\* light window is active: an expired window has been turned off, and the
\* step never turns the LEDs off while the window is active.
C12_LedsFollowWindow ==
    [][ManageLightsStep
          => (/\ leds' => should_lights_be_on'
              /\ should_lights_be_on => leds' = leds)]_vars

\* the manage-lights step calls turn_off_lights (line 380 holds)
TurnOffStep == ManageLightsStep /\ ~should_lights_be_on /\ lights_on_until > 0

\* cleanup, which calls turn_off_lights at line 424
CleanupStep == pc = "cleanup" /\ pc' = "stopped"

\* C13: turn_off_lights sets all LEDs off and leaves the expiry and the rest
\* of the controller state unchanged; only the manage-lights step clears the
\* expiry to 0, and until the window is armed again the turn-off is not
\* repeated.
C13_TurnOffOnlyLeds ==
    [][/\ TurnOffStep
            => (/\ leds' = FALSE
                /\ lights_on_until' = 0
                /\ UNCHANGED << camera_active_until, last_classification_time,
                                result, camera_window_open, is_running,
                                camera_lock, picam2 >>)
       /\ CleanupStep
            => (leds' = FALSE /\ lights_on_until' = lights_on_until)
       /\ (ManageLightsStep /\ lights_on_until = 0) => leds' = leds]_vars

\* C14: in the motion light, with duration D and the last detection in the
\* dark at t, the window is inactive before the first detection, active while
\* now < t + D and inactive from t + D on; for the readings 100, 100, 40, 100
\* at seconds 0..3 and D = 5 it is armed at second 2, active up to second 6
\* and inactive from second 7.
C14_WindowFollowsLastDetection ==
    /\ [](last_activate_time = None
            => (~should_lights_be_on /\ lights_on_until = 0))
    /\ [](last_activate_time # None
            => (should_lights_be_on
                  <=> now < last_activate_time + LIGHT_ON_DURATION_PR2B))
    /\ [](scenario = Len(ExampleReadings)
            => (last_activate_time = 2 /\ (should_lights_be_on <=> now < 7)))
    /\ [][(pc = "arm" /\ pc' = "manage")
            => last_activate_time' =
                  IF object_detected /\ dark_environment
                  THEN now ELSE last_activate_time]_vars

\* the example at second 8: the window ran out and the LEDs were switched off
C14_Witness ==
    /\ scenario = Len(ExampleReadings)
    /\ now = 8
    /\ last_activate_time = 2
    /\ lights_on_until = 0
    /\ ~leds
    /\ pc = "nap"

\* ------------------------------------------------------- station, the tick
\* where the controller may be next, within a tick on its way to the sleep
TickSuccessors(p) ==
    CASE p = "measure" -> {"arm_camera", "check"}
      [] p = "arm_camera" -> {"arm_lights"}
      [] p = "arm_lights" -> {"check"}
      [] p = "check" -> {"classify", "lights"}
      [] p = "classify" -> {"acquire", "lights"}
      [] p = "acquire" -> {"capture"}
      [] p = "capture" -> {"infer", "lights"}
      [] p = "infer" -> {"render", "lights"}
      [] p = "render" -> {"lights"}
      [] p = "lights" -> {"display"}
      [] p = "display" -> {"sleep"}
      [] p = "sleep" -> {"measure"}
      [] OTHER -> {}

\* a step of the controller inside the loop that is not the shutdown
LoopStep == pc' # pc /\ pc' # "cleanup"

\* the reading of this tick is None
NoReadingStep == pc = "measure" /\ no_reading'

\* C15 as stated: on a tick without a range reading no window is armed, and
\* the camera-window check, the light-window check and the display update all
\* run in that tick, which ends in the sleep of line 388.
C15_NoReadingTickRunsToSleep ==
    [][/\ NoReadingStep => (pc' = "check" /\ UNCHANGED << timers, leds >>)
       /\ (no_reading /\ LoopStep) => pc' \in TickSuccessors(pc)]_vars

\* C15: on a tick without a range reading no window is armed and the tick goes
\* on at the camera-window check; the light-window check and the display
\* update run in that tick unless closing the preview window raised in the
\* idle branch, which abandons the tick for the error sleep.
C15_NoReadingTickRunsUnlessCloseFails ==
    [][/\ NoReadingStep => (pc' = "check" /\ UNCHANGED << timers, leds >>)
       /\ (no_reading /\ LoopStep)
            => \/ pc' \in TickSuccessors(pc)
               \/ /\ pc = "check" /\ pc' = "error_sleep"
                  /\ camera_window_open /\ now >= camera_active_until
               \/ pc = "error_sleep" /\ pc' = "measure"]_vars

\* a tick without a reading that reset the result and reached the sleep
C15_Witness ==
    /\ no_reading
    /\ pc = "sleep"
    /\ camera_active_until > 0
    /\ now >= camera_active_until
    /\ last_classification = WAITING
    /\ lights_on_until = 0
    /\ ~leds
    /\ last_attempt_time # None

\* the loop of sensor_monitoring_loop has been left
LoopEnded == pc \in {"cleanup", "stopped"}

\* C16: no transient error ends the control loop: an exception of a sensor
\* read, a classification call, a light update or a display update is caught
\* within the tick or at its boundary and a next tick follows; the loop ends
\* only on KeyboardInterrupt.
C16_LoopEndsOnlyOnShutdown ==
    /\ [](LoopEnded => interrupted)
    /\ [][(~LoopEnded /\ ~interrupted')
            => (pc' \in {"measure", "arm_camera", "arm_lights", "check",
                         "classify", "acquire", "capture", "infer", "render",
                         "lights", "display", "sleep", "error_sleep"}
                /\ is_running')]_vars
    /\ [][(pc = "error_sleep" /\ ~interrupted' /\ pc' # pc)
            => pc' = "measure"]_vars

\* a new tick begins after a camera error and a failed LED turn-off
C16_Witness ==
    /\ pc = "measure"
    /\ ~interrupted
    /\ is_running
    /\ last_classification = CAMERA_ERROR
    /\ leds
    /\ lights_on_until = 0

\* ---------------------------------------------------- station, the teardown
\* C17 as stated: on every exit path of run the teardown is executed, after
\* which the LEDs are off, the camera is stopped and released, and the camera
\* lock is not held by the controller.
C17_TeardownLeavesAllReleased ==
    /\ [](LoopEnded => camera_lock # "controller")
    /\ [](pc = "stopped" => (~is_running /\ ~leds /\ ~picam2))

\* C17: on every exit path of run the teardown is executed, after which the
\* camera lock is not held by the controller, the LEDs are off unless the
\* pixel write of the turn-off raised, and the camera is stopped and released
\* unless stopping or closing it raised.
C17_TeardownReleasesUnlessStepFails ==
    /\ [](LoopEnded => camera_lock # "controller")
    /\ [](pc = "stopped"
            => (/\ ~is_running
                /\ "lights" \notin cleanup_failed => ~leds
                /\ "camera" \notin cleanup_failed => ~picam2))

\* shutdown arrived between capture and inference of a first attempt, lock
\* held and LEDs lit; teardown went through
C17_Witness ==
    /\ pc = "stopped"
    /\ camera_window_open
    /\ last_classification = WAITING
    /\ now < camera_active_until
    /\ now < lights_on_until
    /\ cleanup_failed = {}
    /\ ~leds
    /\ ~picam2
    /\ camera_lock = "free"

\* what a cleanup step leaves behind when it went through
StepEffect(step) ==
    CASE step = "display" -> oled_cleared
      [] step = "window" -> ~windows_shown
      [] step = "lights" -> ~leds
      [] step = "camera" -> ~picam2
      [] step = "gpio" -> ~gpio_open

\* C18: in teardown every cleanup step (clear the display, close the preview
\* window, turn off the lights, stop and close the camera, close the GPIO
\* chip) is attempted whatever the earlier steps did: for every set of failing
\* steps the other steps take effect and teardown completes.
C18_EveryCleanupStepAttempted ==
    /\ [](pc = "stopped"
            => \A step \in CleanupSteps \ cleanup_failed : StepEffect(step))
    /\ [][(pc = "cleanup" /\ pc' # pc) => (pc' = "stopped" /\ ~is_running')]_vars

\* the first and the third step failed; window, camera and GPIO were released
C18_Witness ==
    /\ pc = "stopped"
    /\ cleanup_failed = {"display", "lights"}
    /\ leds
    /\ ~oled_cleared
    /\ camera_window_open
    /\ ~windows_shown
    /\ ~picam2
    /\ ~gpio_open

\* --------------------------------------------------------- measure_distance
\* a pass of a wait loop that stays in the loop
StayInLoop ==
    /\ pc \in {"wait_high", "wait_low"}
    /\ pc' = pc
    /\ (start_time' # start_time \/ end_time' # end_time)

\* C19: measure_distance terminates when the clock advances; with the echo
\* line stuck low or stuck high it returns None once the clock has passed the
\* deadline, which is the call's start plus 100 ms, set once before the wait
\* loops and never moved by them; when the line never goes high it does not
\* return before the deadline.
C19_SingleDeadlineTerminates ==
    /\ <>(pc = "returned")
    /\ [](timeout # None => timeout = call_start + ECHO_TIMEOUT)
    /\ [][(pc \in {"wait_high", "wait_low"}) => (timeout' = timeout)]_vars
    /\ [][StayInLoop => (now <= timeout)]_vars
    /\ []((pc = "returned" /\ ~gpio_broken /\ echo_seen # "high_then_low")
            => (distance = None /\ now > timeout))

\* the line never went high: None, read at the first clock value past the
\* deadline
C19_Witness ==
    /\ pc = "returned"
    /\ echo_seen = "nothing"
    /\ ~gpio_broken
    /\ distance = None
    /\ start_time = timeout + 1
    /\ call_start = 1

\* ------------------------------------------------------------ detect_motion
\* C20: whatever the samples, detect_motion returns false on the first sample
\* after construction (or whenever the baseline is None): that sample only
\* becomes the baseline.
C20_FirstSampleNoMotion ==
    /\ [](Len(fed) = 1 => (~motion /\ previous_distance = fed[1]))
    /\ [][previous_distance = None
            => (~motion' /\ previous_distance' # None
                /\ previous_distance' = fed'[Len(fed')])]_vars

\* a first sample far from zero, and no motion reported
C20_Witness ==
    /\ fed = << 100 >>
    /\ previous_distance = 100
    /\ ~motion

\* C21: for consecutive samples d1, d2 given to detect_motion, motion is
\* reported for d2 exactly when |d1 - d2| > 5, d1 being the sample just
\* before (every sample replaces the baseline, reported or not); a jump is
\* reported once and not again on the unchanged samples that follow.
C21_MotionIffJumpFromPrevious ==
    /\ [][previous_distance # None
            => (/\ motion' = (Abs(previous_distance' - previous_distance)
                                > MOTION_DELTA)
                /\ previous_distance' = fed'[Len(fed')]
                /\ previous_distance = fed'[Len(fed') - 1])]_vars
    /\ []((Len(fed) >= 2 /\ fed[Len(fed)] = fed[Len(fed) - 1]) => ~motion)

\* a jump of 6 cm, then the same distance again: no motion on the third sample
C21_Witness ==
    /\ fed = << 10, 16, 16 >>
    /\ previous_distance = 16
    /\ ~motion

\* ----------------------------------------------------- station, the sensors
\* C22: is_dark returns true exactly when the light-sensor pin reads high; a
\* failed read gives false, so a light-sensor fault never arms the light
\* window, and the tick goes on.
C22_DarkIffPinHighFaultNotDark ==
    [][/\ (pc = "measure" /\ ~no_reading' /\ LoopStep)
            => (/\ dark_environment' = (ldr' = "high")
                /\ pc' = "arm_camera")
       /\ (pc \in {"arm_camera", "arm_lights"} /\ ldr = "fault" /\ LoopStep)
            => (/\ lights_on_until' = lights_on_until
                /\ leds' = leds
                /\ pc' \in TickSuccessors(pc))]_vars

\* the LDR read failed in a tick that detected an object: nothing was armed
\* for the lights, the camera window was
C22_Witness ==
    /\ pc = "arm_lights"
    /\ ldr = "fault"
    /\ object_detected
    /\ ~dark_environment
    /\ lights_on_until = 0
    /\ ~leds
    /\ camera_active_until = now + CAMERA_TIMEOUT

\* lines 303-337: update_display of one tick
DisplayStep == pc = "display" /\ pc' = "sleep"

\* C23 as stated: the status snapshot is a function of the controller state
\* alone, so building it again before the next tick gives the values drawn
C23_SnapshotSameOnRebuild ==
    (pc = "sleep" /\ snapshot # NoSnapshot) => snapshot = StationSnapshot(now)

\* C23: the status snapshot is a function of the controller state and of the
\* clock reading: update_display draws the stored label and confidence, the
\* camera flag "clock < camera_active_until" and the LED flag "clock <
\* lights_on_until", and changes no controller state; built again before the
\* next tick, the label and confidence are the same and a flag differs only
\* by having gone from ACTIVE/ON to IDLE/OFF because the clock passed the expiry
C23_SnapshotOfStateAndClock ==
    /\ [][DisplayStep
            => (/\ \/ snapshot' = NoSnapshot
                   \/ (/\ snapshot'.label = last_classification
                       /\ snapshot'.conf = classification_confidence
                       /\ snapshot'.cam = (now < camera_active_until)
                       /\ snapshot'.led = (now < lights_on_until))
                /\ UNCHANGED << timers, result, camera_window_open, picam2,
                                is_running, camera_lock, leds, windows_shown,
                                teardown >>)]_vars
    /\ []((pc = "sleep" /\ snapshot # NoSnapshot)
            => (/\ snapshot.label = StationSnapshot(now).label
                /\ snapshot.conf = StationSnapshot(now).conf
                /\ StationSnapshot(now).cam => snapshot.cam
                /\ StationSnapshot(now).led => snapshot.led
                /\ (snapshot.cam /\ ~StationSnapshot(now).cam)
                      => now >= camera_active_until
                /\ (snapshot.led /\ ~StationSnapshot(now).led)
                      => now >= lights_on_until))

\* the clock passed camera_active_until between the build and a rebuild
C23_Witness ==
    /\ pc = "sleep"
    /\ snapshot.cam
    /\ snapshot.conf > 0
    /\ snapshot.label = last_classification
    /\ ~StationSnapshot(now).cam

\* C24: the confidence is a percentage in [0,100]; it is 0 whenever the label
\* is WAITING, UNIDENTIFIED or CAMERA ERROR and above 60 whenever the label is
\* a mapped category
C24_ConfidenceFitsLabel ==
    /\ classification_confidence \in 0..100
    /\ last_classification \in Sentinels \cup MappedCategories
    /\ last_classification \in Sentinels => classification_confidence = 0
    /\ last_classification \in MappedCategories => classification_confidence > 60

\* a failed attempt has replaced a category by CAMERA ERROR
C24_Witness ==
    /\ last_classification = CAMERA_ERROR
    /\ classification_confidence = 0
    /\ last_attempt_time # None
    /\ last_classification_time # 0
    /\ pc = "lights"

\* positions inside classify_waste, lines 215-301
InClassify == {"classify", "acquire", "capture", "infer", "render"}

\* C25: the camera is used only while the camera-active window is active: a
\* tick whose check finds now >= camera_active_until, or no camera handle,
\* does not enter classify_waste; a capture happens only in a tick whose check
\* found the window active with the camera present; before the first
\* detection arms the window no capture has happened
C25_CaptureOnlyInActiveWindow ==
    /\ [][/\ (pc = "check" /\ (now >= camera_active_until \/ ~picam2))
                => pc' \notin InClassify
          /\ (pc \notin InClassify /\ pc' \in InClassify)
                => (pc = "check" /\ now < camera_active_until /\ picam2)
          /\ CaptureStep
                => (picam2 /\ camera_active_until > 0
                    /\ last_attempt_time' = current_time)]_vars
    /\ [](camera_active_until = 0
            => (pc \notin InClassify /\ last_attempt_time = None))
    /\ [](~picam2 => (pc \notin InClassify /\ last_attempt_time = None))

\* a tick after a capture whose check found the window expired
C25_Witness ==
    /\ pc = "lights"
    /\ camera_active_until > 0
    /\ now >= camera_active_until
    /\ last_attempt_time # None
    /\ last_classification = WAITING
    /\ current_time = None

\* lines 221-223: classify_waste returns at the rate limit
RejectedStep ==
    /\ pc = "classify"
    /\ picam2
    /\ now - last_classification_time < CLASSIFICATION_DELAY
    /\ pc' # "cleanup"

\* C26: a call of classify_waste made less than the cooldown after
\* last_classification_time is a no-op: it returns without acquiring the
\* camera lock and without a capture, and leaves the result, the confidence,
\* last_classification_time and the preview-window flag unchanged
C26_RateLimitedCallIsNoOp ==
    [][RejectedStep
         => (/\ pc' \in {"classify", "lights"}
             /\ camera_lock' # "controller"
             /\ UNCHANGED << last_classification, classification_confidence,
                             last_classification_time, camera_window_open,
                             windows_shown, last_attempt_time,
                             camera_active_until, lights_on_until, leds >>)]_vars

\* a call in the second of the attempt that stored a category
C26_Witness ==
    /\ pc = "classify"
    /\ picam2
    /\ now - last_classification_time < CLASSIFICATION_DELAY
    /\ last_attempt_time = last_classification_time
    /\ last_classification \in MappedCategories
    /\ camera_window_open

\* the cycle ALL -> TEMP -> HUMIDITY -> LIGHT -> ALL
NextInCycle(m) ==
    CASE m = MODE_ALL -> MODE_TEMP
      [] m = MODE_TEMP -> MODE_HUMIDITY
      [] m = MODE_HUMIDITY -> MODE_LIGHT
      [] m = MODE_LIGHT -> MODE_ALL

RECURSIVE CycleFromAll(_)
CycleFromAll(n) == IF n = 0 THEN MODE_ALL ELSE NextInCycle(CycleFromAll(n - 1))

\* a call of check_buttons
ButtonCallStep == calls' = calls + 1

\* C27: two recognised presses are at least the debounce interval apart; each
\* advances the mode by one step of ALL -> TEMP -> HUMIDITY -> LIGHT -> ALL,
\* starting from ALL; current_mode is always one of the four modes; a call
\* with the button not pressed or within the debounce interval leaves
\* current_mode and last_button_time unchanged
C27_DebouncedPressesCycleModes ==
    /\ [][/\ (ButtonCallStep /\ presses' # presses)
                => (/\ presses' = presses + 1
                    /\ now - last_button_time >= BUTTON_DEBOUNCE
                    /\ button = 0
                    /\ last_button_time' = now
                    /\ current_mode' = NextInCycle(current_mode))
          /\ (ButtonCallStep
              /\ (button # 0 \/ now - last_button_time < BUTTON_DEBOUNCE))
                => UNCHANGED << current_mode, last_button_time, presses >>
          /\ (current_mode' # current_mode \/ last_button_time' # last_button_time)
                => (ButtonCallStep /\ presses' # presses)]_vars
    /\ [](/\ current_mode \in {MODE_TEMP, MODE_HUMIDITY, MODE_LIGHT, MODE_ALL}
          /\ current_mode = CycleFromAll(presses))

\* four presses went round the cycle, and a call within the debounce
\* interval of the fourth, with the button held, changed nothing
C27_Witness ==
    /\ presses = 4
    /\ calls = 5
    /\ current_mode = MODE_ALL
    /\ button = 0
    /\ now - last_button_time < BUTTON_DEBOUNCE

\* exactly the LED on this pin is lit
OnlyOn(pin) == led = [p \in Pins |-> IF p = pin THEN 1 ELSE 0]

\* at the sleep of line 104: the iteration reached the test of line 69
Evaluated == temperature # None /\ Len(temps) = 5

\* lines 65-89: the evaluation of one iteration
EvaluateStep == mpc = "evaluate" /\ mpc' = "leds"

\* C28: with five readings buffered, a rise (newest - oldest > 1) increments
\* consecutive_alerts and leaves ALERT alone lit when the counter is 1 and
\* WARNING alone lit when it is 2 or more; an evaluation without a rise
\* resets the counter to 0 and leaves NORMAL alone lit; so where the loop
\* sleeps the WARNING LED is on iff the iteration evaluated a rise with
\* consecutive_alerts >= 2
C28_EscalationFollowsCounter ==
    /\ [][/\ EvaluateStep
                => (/\ Len(temps) = 5
                    /\ consecutive_alerts' =
                         IF temps[5] - temps[1] > 1
                         THEN consecutive_alerts + 1 ELSE 0)
          /\ consecutive_alerts' # consecutive_alerts => EvaluateStep]_vars
    /\ [](mpc = "sleep"
            => (/\ (Evaluated /\ temps[5] - temps[1] > 1)
                      => (/\ consecutive_alerts >= 1
                          /\ consecutive_alerts = 1 => OnlyOn(LED_ALERT)
                          /\ consecutive_alerts >= 2 => OnlyOn(LED_WARNING))
                /\ (Evaluated /\ ~(temps[5] - temps[1] > 1))
                      => (consecutive_alerts = 0 /\ OnlyOn(LED_NORMAL))
                /\ led[LED_WARNING] = 1
                      <=> (/\ Evaluated
                           /\ temps[5] - temps[1] > 1
                           /\ consecutive_alerts >= 2)))

\* the second rise in a row, after a failed read between the two
C28_Witness ==
    /\ mpc = "sleep"
    /\ OnlyOn(LED_WARNING)
    /\ consecutive_alerts = 2
    /\ Len(readings) = 6
    /\ reads = 7

\* the last n elements of a sequence, or all of it
RECURSIVE LastN(_, _)
LastN(seq, n) == IF Len(seq) <= n THEN seq ELSE LastN(Tail(seq), n)

\* lines 56-62 and 97: the step that buffers the reading, or skips it
StoreStep == mpc = "store" /\ mpc' \in {"evaluate", "leds"}

\* C29: temps never holds more than 5 readings; it holds the most recent
\* successful readings in arrival order, the oldest dropped first; a failed
\* sensor read leaves it unchanged; no rise is evaluated until 5 readings
\* are buffered
C29_BufferIsLastFiveReadings ==
    /\ [][/\ (StoreStep /\ temperature = None)
                => (temps' = temps /\ mpc' = "leds")
          /\ (StoreStep /\ temperature # None)
                => (/\ temps'[Len(temps')] = temperature
                    /\ Len(temps) < 5 => temps' = Append(temps, temperature)
                    /\ Len(temps) = 5
                         => temps' = Append(Tail(temps), temperature))
          /\ temps' # temps => (StoreStep /\ temperature # None)]_vars
    /\ [](/\ Len(temps) <= 5
          /\ temps = LastN(readings, 5)
          /\ mpc = "evaluate" => Len(temps) = 5
          /\ Len(readings) < 5
               => (/\ mpc # "evaluate"
                   /\ consecutive_alerts = 0
                   /\ led[LED_ALERT] = 0
                   /\ led[LED_WARNING] = 0))

\* six readings arrived and the first was dropped; a seventh read failed and
\* is being skipped
C29_Witness ==
    /\ readings = << 20, 21, 22, 22, 21, 20 >>
    /\ temps = << 21, 22, 22, 21, 20 >>
    /\ reads = 7
    /\ temperature = None
    /\ mpc = "leds"

\* how many of the three LEDs are lit
LedsLit == led[LED_NORMAL] + led[LED_ALERT] + led[LED_WARNING]

\* C30: where the monitoring loop sleeps exactly one of the LEDs NORMAL,
\* ALERT, WARNING is lit, for every sequence of readings and failed reads;
\* after shutdown all three are dark
C30_OneLedAtSleepNoneAfterShutdown ==
    /\ mpc = "sleep" => LedsLit = 1
    /\ mpc = "done" => (LedsLit = 0 /\ ~h)

\* shutdown arrived between the writes of an escalation, with WARNING and
\* ALERT both lit, and the finally block has run
C30_Witness ==
    /\ mpc = "done"
    /\ consecutive_alerts = 2
    /\ Len(readings) = 6
    /\ reads = 7
    /\ LedsLit = 0
    /\ ~h

\* C31: every snapshot drawn is consistent: when it shows the camera as IDLE
\* the classification it shows is WAITING with confidence 0
C31_IdleSnapshotShowsWaiting ==
    (snapshot # NoSnapshot /\ ~snapshot.cam)
        => (snapshot.label = WAITING /\ snapshot.conf = 0)

\* the controller is between two ticks: at the sleep of line 388 or of line
\* 392, or about to measure
TickBoundary == pc \in {"sleep", "error_sleep", "measure"}

\* C32: without LED hardware faults, at every tick boundary the LEDs are lit
\* iff lights_on_until > 0; the expiry is 0 until the lights are first armed
\* and after every turn-off
C32_LedsLitIffExpirySet ==
    /\ [](TickBoundary => (leds <=> lights_on_until > 0))
    /\ [](camera_active_until = 0 => (lights_on_until = 0 /\ ~leds))
    /\ [][TurnOffStep => (lights_on_until' = 0 /\ ~leds')]_vars

\* the lights were armed, expired and were turned off, and the window check
\* of the next tick failed on the preview window
C32_Witness ==
    /\ pc = "error_sleep"
    /\ camera_active_until > 0
    /\ lights_on_until = 0
    /\ ~leds
    /\ now >= StartTime + LIGHT_ON_DURATION
    /\ camera_window_open

\* C33: when the light window is armed less than 5 s after the camera window
\* of the same tick, lights_on_until <= camera_active_until in every state,
\* so the light window is never active while the camera window is inactive
C33_LightWindowInsideCameraWindow ==
    /\ lights_on_until <= camera_active_until
    /\ should_lights_be_on => now < camera_active_until

\* the camera window was armed at the start and the light window, in the same
\* tick, Near seconds later
C33_Witness ==
    /\ camera_active_until = StartTime + CAMERA_TIMEOUT
    /\ lights_on_until = StartTime + Near + LIGHT_ON_DURATION
    /\ leds
    /\ should_lights_be_on
    /\ pc = "check"

\* C34: when the loop keeps ticking, the clock has passed both windows and no
\* detection arms them again, the station comes to rest and stays there: LEDs
\* off with lights_on_until = 0, camera window inactive, result WAITING with
\* confidence 0, preview window closed
C34_ReturnsToIdle ==
    <>[](now >= camera_active_until /\ now >= lights_on_until)
        => <>[](/\ ~leds
                /\ lights_on_until = 0
                /\ now >= camera_active_until
                /\ last_classification = WAITING
                /\ classification_confidence = 0
                /\ ~camera_window_open)

=============================================================================
